---- MODULE Spec2Model ----
(***************************************************************************)
(* Model of the sindex package: the ctypes wrappers of                     *)
(* sindex/sindex_interface.py around the native Sindex library, and the    *)
(* example program main.py that drives them.                               *)
(*                                                                         *)
(* Python values are records tagged by their type, so that an index, a     *)
(* float, negative infinity, a string and a raised exception are all       *)
(* different values.  A double computed by the native library is kept as   *)
(* the application of the native function to the arguments it was handed.  *)
(***************************************************************************)
EXTENDS Integers, Sequences, FiniteSets, TLC

VARIABLES lib, fnsig, dllattr, th, mpc, menv, mcalls, trav, msglog

vars == <<lib, fnsig, dllattr, th, mpc, menv, mcalls, trav, msglog>>

(***************************************************************************)
(* Bounds of the model.                                                    *)
(***************************************************************************)
\* the loaded species table holds 0..MaxSpecies species
MaxSpecies == 2
\* every species owns CurvesPer curves, numbered consecutively
CurvesPer == 2
\* error codes are looked up from -MaxCode up to 1
MaxCode == 14
\* a caller looks up at most MaxLookups error codes
MaxLookups == 3

(***************************************************************************)
(* Enumerations of sindex_interface.py.                                    *)
(***************************************************************************)
COAST == 0
INTERIOR == 1
MEDIUM == 3
GOOD == 4
TOTAL == 0
BREAST == 1
NATURAL == 0
PLANTED == 1
ITERATE == 0
DIRECT == 1

(***************************************************************************)
(* Python values.                                                          *)
(***************************************************************************)
PyInt(n) == [py |-> "int", n |-> n]
\* a finite float literal, counted in tenths (10.0 is PyFloat(100))
PyFloat(t) == [py |-> "float", tenths |-> t]
\* float('-inf')
NegInf == [py |-> "float", inf |-> -1]
\* a double the native library computed from the arguments it received
NativeDouble(fn, args) == [py |-> "float", fn |-> fn, args |-> args]
\* a str: the sequence of its code points
PyStr(s) == [py |-> "str", chars |-> s]
PyRaise(e) == [py |-> "raise", exc |-> e]

IsFinite(x) == x.py = "float" /\ x # NegInf

\* x <= 1.3 for a double: literals compare by value, negative infinity is
\* below everything, a double computed by a successful native call is a valid
\* measure (above 1.3)
AtMostBreastHeight(x) ==
    IF x = NegInf THEN TRUE
    ELSE IF "tenths" \in DOMAIN x THEN x.tenths <= 13
    ELSE FALSE

(***************************************************************************)
(* ctypes conversions.                                                     *)
(***************************************************************************)
\* c_short(n): the low 16 bits of n, read as a signed number
CShortValue(n) == ((n + 32768) % 65536) - 32768
CShort(n) == [ctype |-> "c_short", v |-> CShortValue(n)]
CDouble(x) == [ctype |-> "c_double", v |-> x]
\* c_char(n) accepts an integer 0..255 only
CCharOk(n) == n >= 0 /\ n < 256
CChar(n) == [ctype |-> "c_char", v |-> n]
\* byref(c_double(0.0)): the output parameter, initially 0.0
ByRef == [ctype |-> "POINTER(c_double)", v |-> PyFloat(0)]

\* bytes.decode(): strict UTF-8.  A bytes value is the sequence of its byte
\* values 0..255; the result is the sequence of code points, or a failure
\* (UnicodeDecodeError) on an invalid start byte, a missing or invalid
\* continuation byte, an overlong form, a surrogate or a value above U+10FFFF
Continuation(b) == b >= 128 /\ b < 192
Utf8Length(b) ==
    IF b < 128 THEN 1
    ELSE IF b >= 194 /\ b < 224 THEN 2
    ELSE IF b >= 224 /\ b < 240 THEN 3
    ELSE IF b >= 240 /\ b < 245 THEN 4
    ELSE 0
DecodeError == [ok |-> FALSE, chars |-> <<>>]
RECURSIVE Decode(_)
Decode(bs) ==
    IF bs = <<>> THEN [ok |-> TRUE, chars |-> <<>>]
    ELSE LET n == Utf8Length(bs[1]) IN
         IF n = 0 \/ Len(bs) < n THEN DecodeError
         ELSE IF \E i \in 2 .. n : ~Continuation(bs[i]) THEN DecodeError
         ELSE LET cp == CASE n = 1 -> bs[1]
                          [] n = 2 -> (bs[1] - 192) * 64 + (bs[2] - 128)
                          [] n = 3 -> (bs[1] - 224) * 4096 + (bs[2] - 128) * 64
                                      + (bs[3] - 128)
                          [] n = 4 -> (bs[1] - 240) * 262144 + (bs[2] - 128) * 4096
                                      + (bs[3] - 128) * 64 + (bs[4] - 128)
                  valid == /\ n = 3 => cp >= 2048 /\ (cp < 55296 \/ cp > 57343)
                           /\ n = 4 => cp >= 65536 /\ cp <= 1114111
                  rest == Decode(SubSeq(bs, n + 1, Len(bs)))
              IN IF ~valid \/ ~rest.ok THEN DecodeError
                 ELSE [ok |-> TRUE, chars |-> <<cp>> \o rest.chars]

\* the code points str.strip() removes: those str.isspace() is true of
Whitespace ==
    (9 .. 13) \cup (28 .. 32) \cup {133, 160, 5760} \cup (8192 .. 8202)
    \cup {8232, 8233, 8239, 8287, 12288}

\* str.lstrip(), str.rstrip(), str.strip() without argument
RECURSIVE LStrip(_)
LStrip(s) == IF s # <<>> /\ Head(s) \in Whitespace THEN LStrip(Tail(s)) ELSE s
RECURSIVE RStrip(_)
RStrip(s) ==
    IF s # <<>> /\ s[Len(s)] \in Whitespace
    THEN RStrip(SubSeq(s, 1, Len(s) - 1)) ELSE s
Strip(s) == LStrip(RStrip(s))

(***************************************************************************)
(* get_sindex_err_msg.                                                     *)
(***************************************************************************)
\* error_messages with the message of -8 entered for -10 as well
error_messages_SharedMessage ==
    [c \in -12 .. -1 |->
        CASE c = -1 -> "site index <= 1.3"
          [] c = -2 -> "bhage < 0.5 (for GI)"
          [] c = -3 -> "bhage > GI range"
          [] c = -4 -> "no answer was generated"
          [] c = -5 -> "input curve is not a valid curve index"
          [] c = -6 -> "site class is unknown"
          [] c = -7 -> "FIZ code is unknown"
          [] c = -8 -> "species code is unknown"
          [] c = -9 -> "total age and GI curve"
          [] c = -10 -> "species code is unknown"
          [] c = -11 -> "unknown age type"
          [] c = -12 -> "input parameter is not a valid establishment type"]

error_messages ==
    [c \in -12 .. -1 |->
        CASE c = -1 -> "site index <= 1.3"
          [] c = -2 -> "bhage < 0.5 (for GI)"
          [] c = -3 -> "bhage > GI range"
          [] c = -4 -> "no answer was generated"
          [] c = -5 -> "input curve is not a valid curve index"
          [] c = -6 -> "site class is unknown"
          [] c = -7 -> "FIZ code is unknown"
          [] c = -8 -> "species code is unknown"
          [] c = -9 -> "total age and GI curve"
          [] c = -10 -> "source species index is not valid, or no conversion"
          [] c = -11 -> "unknown age type"
          [] c = -12 -> "input parameter is not a valid establishment type"]

get_sindex_err_msg(error_code) ==
    IF error_code \in DOMAIN error_messages
    THEN error_messages[error_code]
    ELSE "unknown issue"

(***************************************************************************)
(* The native Sindex library.  Its binary is not part of the sources: it   *)
(* is modelled from the specification's registries (sections 3 and 4) over *)
(* a loaded table lib = [nspecies, nullOnBad, direct].  Species are        *)
(* numbered 0..nspecies-1 in load order; species sp owns the CurvesPer     *)
(* curves sp*CurvesPer .. sp*CurvesPer+CurvesPer-1 in registration order.  *)
(* nullOnBad is the library's convention for a string lookup on an index   *)
(* outside the table: a NULL pointer, or an empty string.  direct tells    *)
(* whether the curve models have a closed-form inverse for the DIRECT      *)
(* estimate; without one a DIRECT request generates no answer.             *)
(***************************************************************************)
NativeVersion == 154

ValidSpecies(l, sp) == sp >= 0 /\ sp < l.nspecies
NumCurves(l) == l.nspecies * CurvesPer
ValidCurve(l, c) == c >= 0 /\ c < NumCurves(l)
FirstCurveOf(sp) == sp * CurvesPer
LastCurveOf(sp) == sp * CurvesPer + CurvesPer - 1
OwnerOf(c) == c \div CurvesPer

NullPtr == [ptr |-> "NULL"]
\* a char* result as c_char_p hands it back: the sequence of its byte values
Bytes(s) == [ptr |-> "bytes", chars |-> s]
NoPtr == [ptr |-> "none"]

\* the ASCII digits of a number (48 is "0")
Digit == [d \in 0 .. 9 |-> 48 + d]
RECURSIVE Numeral(_)
Numeral(i) ==
    IF i < 10 THEN <<Digit[i]>>
    ELSE Numeral(i \div 10) \o <<Digit[i % 10]>>

BadIndexString(l) == IF l.nullOnBad THEN NullPtr ELSE Bytes(<<>>)

Sindex_VersionNumber == NativeVersion

Sindex_FirstSpecies(l) == IF l.nspecies = 0 THEN -4 ELSE 0

Sindex_NextSpecies(l, sp) ==
    IF ~ValidSpecies(l, sp) THEN -8
    ELSE IF sp = l.nspecies - 1 THEN -4
    ELSE sp + 1

\* species codes are fixed-width, padded with blanks: "S<sp>  "
Sindex_SpecCode(l, sp) ==
    IF ~ValidSpecies(l, sp) THEN BadIndexString(l)
    ELSE Bytes(<<83>> \o Numeral(sp) \o <<32, 32>>)

Sindex_SpecName(l, sp) ==
    IF ~ValidSpecies(l, sp) THEN BadIndexString(l)
    ELSE Bytes(<<115, 112, 32>> \o Numeral(sp))

Sindex_DefCurve(l, sp) ==
    IF ~ValidSpecies(l, sp) THEN -8 ELSE FirstCurveOf(sp)

Sindex_DefCurveEst(l, sp, regen) ==
    IF ~ValidSpecies(l, sp) THEN -8
    ELSE IF regen \notin {NATURAL, PLANTED} THEN -12
    ELSE IF regen = NATURAL THEN FirstCurveOf(sp)
    ELSE LastCurveOf(sp)

Sindex_DefGICurve(l, sp) ==
    IF ~ValidSpecies(l, sp) THEN -8 ELSE LastCurveOf(sp)

Sindex_FirstCurve(l, sp) ==
    IF ~ValidSpecies(l, sp) THEN -8 ELSE FirstCurveOf(sp)

Sindex_NextCurve(l, sp, c) ==
    IF ~ValidSpecies(l, sp) THEN -8
    ELSE IF ~ValidCurve(l, c) \/ OwnerOf(c) # sp THEN -5
    ELSE IF c = LastCurveOf(sp) THEN -4
    ELSE c + 1

Sindex_CurveName(l, c) ==
    IF ~ValidCurve(l, c) THEN BadIndexString(l)
    ELSE Bytes(<<67>> \o Numeral(c) \o <<32>>)

Sindex_CurveSource(l, c) ==
    IF ~ValidCurve(l, c) THEN BadIndexString(l)
    ELSE Bytes(<<9, 114, 101, 102>> \o Numeral(c))

Sindex_CurveNotes(l, c) ==
    IF ~ValidCurve(l, c) THEN BadIndexString(l)
    ELSE Bytes(<<110>> \o Numeral(c) \o <<13, 10>>)

\* a numeric native call: a status, and the value written to the output
\* parameter (left at its initial 0.0 when the call fails)
NativeFail(status) == [status |-> status, out |-> PyFloat(0)]
NativeOk(value) == [status |-> 0, out |-> value]

Sindex_HtAgeToSI(l, curve, age, age_type, height, estimate) ==
    IF ~ValidCurve(l, curve) THEN NativeFail(-5)
    ELSE IF age_type \notin {TOTAL, BREAST} THEN NativeFail(-11)
    ELSE IF AtMostBreastHeight(height) THEN NativeFail(-1)
    ELSE IF estimate = DIRECT /\ ~l.direct THEN NativeFail(-4)
    ELSE NativeOk(NativeDouble("Sindex_HtAgeToSI",
                               <<PyInt(curve), age, PyInt(age_type), height,
                                 PyInt(estimate)>>))

Sindex_HtSIToAge(l, curve, height, age_type, site_index, y2bh) ==
    IF ~ValidCurve(l, curve) THEN NativeFail(-5)
    ELSE IF age_type \notin {TOTAL, BREAST} THEN NativeFail(-11)
    ELSE IF AtMostBreastHeight(site_index) THEN NativeFail(-1)
    ELSE NativeOk(NativeDouble("Sindex_HtSIToAge",
                               <<PyInt(curve), height, PyInt(age_type),
                                 site_index, y2bh>>))

Sindex_AgeSIToHt(l, curve, age, age_type, site_index, y2bh) ==
    IF ~ValidCurve(l, curve) THEN NativeFail(-5)
    ELSE IF age_type \notin {TOTAL, BREAST} THEN NativeFail(-11)
    ELSE IF AtMostBreastHeight(site_index) THEN NativeFail(-1)
    ELSE NativeOk(NativeDouble("Sindex_AgeSIToHt",
                               <<PyInt(curve), age, PyInt(age_type),
                                 site_index, y2bh>>))

Sindex_Y2BH(l, curve, site_index) ==
    IF ~ValidCurve(l, curve) THEN NativeFail(-5)
    ELSE IF AtMostBreastHeight(site_index) THEN NativeFail(-1)
    ELSE NativeOk(NativeDouble("Sindex_Y2BH", <<PyInt(curve), site_index>>))

\* a conversion is registered from every species to the next one
HasConversion(source, target) == target = source + 1

Sindex_SIToSI(l, source, site_index, target) ==
    IF ~ValidSpecies(l, source) THEN NativeFail(-10)
    ELSE IF ~ValidSpecies(l, target) THEN NativeFail(-8)
    ELSE IF source = target THEN NativeOk(site_index)
    ELSE IF ~HasConversion(source, target) THEN NativeFail(-10)
    ELSE NativeOk(NativeDouble("Sindex_SIToSI",
                               <<PyInt(source), site_index, PyInt(target)>>))

\* the site-class table has an entry for every class LOW..GOOD of the first
\* species in both zones, and for the other species in the interior only
HasSiteClassEntry(sp, site_class, fiz) ==
    site_class # 0 /\ (sp = 0 \/ fiz = INTERIOR)

Sindex_SCToSI(l, sp, site_class, fiz) ==
    IF ~ValidSpecies(l, sp) THEN NativeFail(-8)
    ELSE IF site_class \notin 0 .. GOOD THEN NativeFail(-6)
    ELSE IF fiz \notin {COAST, INTERIOR} THEN NativeFail(-7)
    ELSE IF ~HasSiteClassEntry(sp, site_class, fiz) THEN NativeFail(-4)
    ELSE NativeOk(NativeDouble("Sindex_SCToSI",
                               <<PyInt(sp), PyInt(site_class), PyInt(fiz)>>))

(***************************************************************************)
(* The wrappers of sindex_interface.py.  Each yields what the caller and   *)
(* the loggers see: the returned value (or the exception raised), the      *)
(* native status, the value in the output parameter, the arguments handed  *)
(* to the native function, and the logger written to with its message.     *)
(***************************************************************************)
Returned(ret, status, out, ptr, nargs, logger, msg) ==
    [ret |-> ret, status |-> status, out |-> out, ptr |-> ptr,
     nargs |-> nargs, logger |-> logger, msg |-> msg]

\* IndexResult with the test "result <= 0" in place of "result < 0"
IndexResult_ZeroIsError(result, nargs) ==
    IF result <= 0
    THEN [ret |-> PyInt(-1), status |-> result, out |-> PyFloat(0), ptr |-> NoPtr,
          nargs |-> nargs, logger |-> "sindex_error",
          msg |-> get_sindex_err_msg(result)]
    ELSE [ret |-> PyInt(result), status |-> result, out |-> PyFloat(0),
          ptr |-> NoPtr, nargs |-> nargs, logger |-> "sindex_log", msg |-> "result"]

\* an index wrapper's tail: -1 with an error-log line when the native result
\* is negative, the result itself with a debug-log line otherwise
IndexResult(result, nargs) ==
    IF result < 0
    THEN Returned(PyInt(-1), result, PyFloat(0), NoPtr, nargs,
                  "sindex_error", get_sindex_err_msg(result))
    ELSE Returned(PyInt(result), result, PyFloat(0), NoPtr, nargs,
                  "sindex_log", "result")

\* NextResult handing the "last defined" status to the caller as it is
NextResult_PassStatus(result, nargs, last_msg) ==
    IF result = -4
    THEN Returned(PyInt(result), result, PyFloat(0), NoPtr, nargs,
                  "sindex_log", last_msg)
    ELSE IndexResult(result, nargs)

\* a traversal wrapper's tail: the "last defined" status -4 is logged to the
\* debug log, and returns -1 like any other negative status
NextResult(result, nargs, last_msg) ==
    IF result = -4
    THEN Returned(PyInt(-1), result, PyFloat(0), NoPtr, nargs,
                  "sindex_log", last_msg)
    ELSE IndexResult(result, nargs)

\* a string wrapper's tail, .decode().strip(): c_char_p hands back bytes, or
\* None for NULL, and None has no decode(); bytes that are not UTF-8 raise
\* from decode(), before anything is logged
StringResult(p, nargs) ==
    IF p = NullPtr
    THEN Returned(PyRaise("AttributeError"), 0, PyFloat(0), p, nargs, "none", "")
    ELSE IF ~Decode(p.chars).ok
    THEN Returned(PyRaise("UnicodeDecodeError"), 0, PyFloat(0), p, nargs,
                  "none", "")
    ELSE Returned(PyStr(Strip(Decode(p.chars).chars)), 0, PyFloat(0), p, nargs,
                  "sindex_log", "result")

\* ValueResult handing back the output parameter without testing the status
ValueResult_NoCheck(nat, nargs) ==
    Returned(nat.out, nat.status, nat.out, NoPtr, nargs, "sindex_log", "result")

\* ValueResult handing back the status itself, as a float, on failure
ValueResult_StatusAsValue(nat, nargs) ==
    IF nat.status < 0
    THEN Returned(PyFloat(nat.status * 10), nat.status, nat.out, NoPtr, nargs,
                  "sindex_error", get_sindex_err_msg(nat.status))
    ELSE Returned(nat.out, nat.status, nat.out, NoPtr, nargs, "sindex_log", "result")

\* a value wrapper's tail: negative infinity with an error-log line when the
\* status is negative, the output parameter's value otherwise
ValueResult(nat, nargs) ==
    LET result == nat.status IN
    IF result < 0
    THEN Returned(NegInf, result, nat.out, NoPtr, nargs,
                  "sindex_error", get_sindex_err_msg(result))
    ELSE Returned(nat.out, result, nat.out, NoPtr, nargs, "sindex_log", "result")

get_version_number(l) ==
    LET result == CShortValue(Sindex_VersionNumber) IN
    Returned([py |-> "float", hundredths |-> result], result, PyFloat(0), NoPtr,
             <<>>, "sindex_log", "result")

get_first_species(l) ==
    IndexResult(CShortValue(Sindex_FirstSpecies(l)), <<>>)

\* get_next_species asking the library for the successor of idx - 1
get_next_species_OffByOne(l, idx) ==
    LET nargs == <<CShort(idx - 1)>> IN
    NextResult(CShortValue(Sindex_NextSpecies(l, nargs[1].v)), nargs,
               "Last defined species index")

get_next_species(l, idx) ==
    LET nargs == <<CShort(idx)>> IN
    NextResult(CShortValue(Sindex_NextSpecies(l, nargs[1].v)), nargs,
               "Last defined species index")

get_species_code(l, species_idx) ==
    LET nargs == <<CShort(species_idx)>> IN
    StringResult(Sindex_SpecCode(l, nargs[1].v), nargs)

get_species_name(l, species_idx) ==
    LET nargs == <<CShort(species_idx)>> IN
    StringResult(Sindex_SpecName(l, nargs[1].v), nargs)

get_def_curve(l, species_idx) ==
    LET nargs == <<CShort(species_idx)>> IN
    IndexResult(CShortValue(Sindex_DefCurve(l, nargs[1].v)), nargs)

get_def_curve_est(l, species_idx, regen_type) ==
    LET nargs == <<CShort(species_idx), CShort(regen_type)>> IN
    IndexResult(CShortValue(Sindex_DefCurveEst(l, nargs[1].v, nargs[2].v)), nargs)

get_def_gi_curve(l, species_idx) ==
    LET nargs == <<CShort(species_idx)>> IN
    IndexResult(CShortValue(Sindex_DefGICurve(l, nargs[1].v)), nargs)

get_first_curve(l, species_idx) ==
    LET nargs == <<CShort(species_idx)>> IN
    IndexResult(CShortValue(Sindex_FirstCurve(l, nargs[1].v)), nargs)

get_next_curve(l, species_idx, curve_idx) ==
    LET nargs == <<CShort(species_idx), CShort(curve_idx)>> IN
    NextResult(CShortValue(Sindex_NextCurve(l, nargs[1].v, nargs[2].v)), nargs,
               "Last defined curve index for this species")

get_curve_name(l, curve_idx) ==
    LET nargs == <<CShort(curve_idx)>> IN
    StringResult(Sindex_CurveName(l, nargs[1].v), nargs)

get_curve_source(l, curve_idx) ==
    LET nargs == <<CShort(curve_idx)>> IN
    StringResult(Sindex_CurveSource(l, nargs[1].v), nargs)

get_curve_notes(l, curve_idx) ==
    LET nargs == <<CShort(curve_idx)>> IN
    StringResult(Sindex_CurveNotes(l, nargs[1].v), nargs)

\* calc_site building its argument list in the order of its own parameters
calc_site_args_PythonOrder(species_idx, height, age, use_bh, estimate_type) ==
    <<CShort(species_idx), CDouble(height), CShort(use_bh), CDouble(age),
      CShort(estimate_type), ByRef>>

\* calc_age leaving the caller's years-to-breast-height out of the call
calc_age_args_NoY2bh(curve_idx, site_index, height, yrs_to_breast_height, use_bh) ==
    <<CShort(curve_idx), CDouble(height), CShort(use_bh), CDouble(site_index),
      CDouble(PyFloat(0)), ByRef>>

\* the argument lists the three height/age/site wrappers build, in the
\* native order (curve, first measure, age type, second measure, ...)
calc_site_args(species_idx, height, age, use_bh, estimate_type) ==
    <<CShort(species_idx), CDouble(age), CShort(use_bh), CDouble(height),
      CShort(estimate_type), ByRef>>

calc_age_args(curve_idx, site_index, height, yrs_to_breast_height, use_bh) ==
    <<CShort(curve_idx), CDouble(height), CShort(use_bh), CDouble(site_index),
      CDouble(yrs_to_breast_height), ByRef>>

calc_height_args(curve_idx, site_index, age, yrs_to_breast_height, use_bh) ==
    <<CShort(curve_idx), CDouble(age), CShort(use_bh), CDouble(site_index),
      CDouble(yrs_to_breast_height), ByRef>>

calc_site(l, species_idx, height, age, use_bh, estimate_type) ==
    LET a == calc_site_args(species_idx, height, age, use_bh, estimate_type) IN
    ValueResult(Sindex_HtAgeToSI(l, a[1].v, a[2].v, a[3].v, a[4].v, a[5].v), a)

calc_age(l, curve_idx, site_index, height, yrs_to_breast_height, use_bh) ==
    LET a == calc_age_args(curve_idx, site_index, height,
                           yrs_to_breast_height, use_bh) IN
    ValueResult(Sindex_HtSIToAge(l, a[1].v, a[2].v, a[3].v, a[4].v, a[5].v), a)

calc_height(l, curve_idx, site_index, age, yrs_to_breast_height, use_bh) ==
    LET a == calc_height_args(curve_idx, site_index, age,
                              yrs_to_breast_height, use_bh) IN
    ValueResult(Sindex_AgeSIToHt(l, a[1].v, a[2].v, a[3].v, a[4].v, a[5].v), a)

calc_y2bh(l, curve_idx, site_index) ==
    LET a == <<CShort(curve_idx), CDouble(site_index), ByRef>> IN
    ValueResult(Sindex_Y2BH(l, a[1].v, a[2].v), a)

calc_convert_site(l, spec_idx, site_index, target_spec_idx) ==
    LET a == <<CShort(spec_idx), CDouble(site_index), CShort(target_spec_idx),
               ByRef>> IN
    ValueResult(Sindex_SIToSI(l, a[1].v, a[2].v, a[3].v), a)

calc_site_class_to_site_index(l, species_idx, site_class, fiz) ==
    IF ~CCharOk(site_class) \/ ~CCharOk(fiz)
    THEN Returned(PyRaise("TypeError"), 0, PyFloat(0), NoPtr, <<>>, "none", "")
    ELSE LET a == <<CShort(species_idx), CChar(site_class), CChar(fiz), ByRef>> IN
         ValueResult(Sindex_SCToSI(l, a[1].v, a[2].v, a[3].v), a)

(***************************************************************************)
(* Calls, and the function objects of the one library handle sindex_dll.   *)
(* A call is [op, args]; Apply runs the wrapper named by op.               *)
(***************************************************************************)
Apply(l, c) ==
    LET a == c.args IN
    CASE c.op = "get_version_number" -> get_version_number(l)
      [] c.op = "get_first_species" -> get_first_species(l)
      [] c.op = "get_next_species" -> get_next_species(l, a[1].n)
      [] c.op = "get_species_code" -> get_species_code(l, a[1].n)
      [] c.op = "get_species_name" -> get_species_name(l, a[1].n)
      [] c.op = "get_def_curve" -> get_def_curve(l, a[1].n)
      [] c.op = "get_def_curve_est" -> get_def_curve_est(l, a[1].n, a[2].n)
      [] c.op = "get_def_gi_curve" -> get_def_gi_curve(l, a[1].n)
      [] c.op = "get_first_curve" -> get_first_curve(l, a[1].n)
      [] c.op = "get_next_curve" -> get_next_curve(l, a[1].n, a[2].n)
      [] c.op = "get_curve_name" -> get_curve_name(l, a[1].n)
      [] c.op = "get_curve_source" -> get_curve_source(l, a[1].n)
      [] c.op = "get_curve_notes" -> get_curve_notes(l, a[1].n)
      [] c.op = "calc_site" -> calc_site(l, a[1].n, a[2], a[3], a[4].n, a[5].n)
      [] c.op = "calc_age" -> calc_age(l, a[1].n, a[2], a[3], a[4], a[5].n)
      [] c.op = "calc_height" -> calc_height(l, a[1].n, a[2], a[3], a[4], a[5].n)
      [] c.op = "calc_y2bh" -> calc_y2bh(l, a[1].n, a[2])
      [] c.op = "calc_convert_site" -> calc_convert_site(l, a[1].n, a[2], a[3].n)
      [] c.op = "calc_site_class_to_site_index" ->
            calc_site_class_to_site_index(l, a[1].n, a[2].n, a[3].n)

\* calc_y2bh fetching the function object calc_site uses
NativeFn_SharedObject(op) ==
    CASE op = "get_version_number" -> "Sindex_VersionNumber"
      [] op = "get_first_species" -> "Sindex_FirstSpecies"
      [] op = "get_next_species" -> "Sindex_NextSpecies"
      [] op = "get_species_code" -> "Sindex_SpecCode"
      [] op = "get_species_name" -> "Sindex_SpecName"
      [] op = "get_def_curve" -> "Sindex_DefCurve"
      [] op = "get_def_curve_est" -> "Sindex_DefCurveEst"
      [] op = "get_def_gi_curve" -> "Sindex_DefGICurve"
      [] op = "get_first_curve" -> "Sindex_FirstCurve"
      [] op = "get_next_curve" -> "Sindex_NextCurve"
      [] op = "get_curve_name" -> "Sindex_CurveName"
      [] op = "get_curve_source" -> "Sindex_CurveSource"
      [] op = "get_curve_notes" -> "Sindex_CurveNotes"
      [] op = "calc_site" -> "Sindex_HtAgeToSI"
      [] op = "calc_age" -> "Sindex_HtSIToAge"
      [] op = "calc_height" -> "Sindex_AgeSIToHt"
      [] op = "calc_y2bh" -> "Sindex_HtAgeToSI"
      [] op = "calc_convert_site" -> "Sindex_SIToSI"
      [] op = "calc_site_class_to_site_index" -> "Sindex_SCToSI"

\* the attribute of sindex_dll each wrapper fetches
NativeFn(op) ==
    CASE op = "get_version_number" -> "Sindex_VersionNumber"
      [] op = "get_first_species" -> "Sindex_FirstSpecies"
      [] op = "get_next_species" -> "Sindex_NextSpecies"
      [] op = "get_species_code" -> "Sindex_SpecCode"
      [] op = "get_species_name" -> "Sindex_SpecName"
      [] op = "get_def_curve" -> "Sindex_DefCurve"
      [] op = "get_def_curve_est" -> "Sindex_DefCurveEst"
      [] op = "get_def_gi_curve" -> "Sindex_DefGICurve"
      [] op = "get_first_curve" -> "Sindex_FirstCurve"
      [] op = "get_next_curve" -> "Sindex_NextCurve"
      [] op = "get_curve_name" -> "Sindex_CurveName"
      [] op = "get_curve_source" -> "Sindex_CurveSource"
      [] op = "get_curve_notes" -> "Sindex_CurveNotes"
      [] op = "calc_site" -> "Sindex_HtAgeToSI"
      [] op = "calc_age" -> "Sindex_HtSIToAge"
      [] op = "calc_height" -> "Sindex_AgeSIToHt"
      [] op = "calc_y2bh" -> "Sindex_Y2BH"
      [] op = "calc_convert_site" -> "Sindex_SIToSI"
      [] op = "calc_site_class_to_site_index" -> "Sindex_SCToSI"

\* a function object's argtypes before any wrapper set them (None)
NoArgtypes == <<"None">>

\* the argtypes each wrapper assigns (two wrappers assign none)
Argtypes(op) ==
    CASE op \in {"get_version_number", "get_first_species"} -> NoArgtypes
      [] op \in {"get_next_species", "get_species_code", "get_species_name",
                 "get_def_curve", "get_def_gi_curve", "get_first_curve",
                 "get_curve_name", "get_curve_source", "get_curve_notes"} ->
            <<"c_short">>
      [] op \in {"get_def_curve_est", "get_next_curve"} -> <<"c_short", "c_short">>
      [] op = "calc_site" ->
            <<"c_short", "c_double", "c_short", "c_double", "c_short",
              "POINTER(c_double)">>
      [] op \in {"calc_age", "calc_height"} ->
            <<"c_short", "c_double", "c_short", "c_double", "c_double",
              "POINTER(c_double)">>
      [] op = "calc_y2bh" -> <<"c_short", "c_double", "POINTER(c_double)">>
      [] op = "calc_convert_site" ->
            <<"c_short", "c_double", "c_short", "POINTER(c_double)">>
      [] op = "calc_site_class_to_site_index" ->
            <<"c_short", "c_char", "c_char", "POINTER(c_double)">>

\* the restype each wrapper assigns
Restype(op) ==
    CASE op \in {"get_species_code", "get_species_name", "get_curve_name",
                 "get_curve_source", "get_curve_notes"} -> "c_char_p"
      [] op \in {"calc_site", "calc_age", "calc_height", "calc_y2bh",
                 "calc_convert_site", "calc_site_class_to_site_index"} -> "c_int"
      [] OTHER -> "c_short"

Ops ==
    {"get_version_number", "get_first_species", "get_next_species",
     "get_species_code", "get_species_name", "get_def_curve", "get_def_curve_est",
     "get_def_gi_curve", "get_first_curve", "get_next_curve", "get_curve_name",
     "get_curve_source", "get_curve_notes", "calc_site", "calc_age", "calc_height",
     "calc_y2bh", "calc_convert_site", "calc_site_class_to_site_index"}

NativeFns == {NativeFn(op) : op \in Ops}

\* a function object as CDLL.__getattr__ creates it: no argtypes, restype c_int
DefaultSig == [argtypes |-> NoArgtypes, restype |-> "c_int"]

\* the signature a wrapper's native call needs to be in force
Signature(op) == [argtypes |-> Argtypes(op), restype |-> Restype(op)]

(***************************************************************************)
(* The inputs the callers draw from.                                       *)
(***************************************************************************)
\* an index outside every table the model loads
BadIdx == (MaxSpecies + 1) * CurvesPer
IdxArgs == {0, BadIdx}
Heights == {PyFloat(100), PyFloat(10)}
Ages == {PyFloat(500)}
SiteIndexes == {PyFloat(200), PyFloat(10)}
YearsToBH == {PyFloat(50), PyFloat(60)}

Call(op, args) == [op |-> op, args |-> args]
NoCall == [op |-> "none", args |-> <<>>]

Calls ==
    {Call("get_version_number", <<>>), Call("get_first_species", <<>>)}
    \cup {Call("get_next_species", <<PyInt(i)>>) : i \in 0 .. MaxSpecies}
    \cup {Call(op, <<PyInt(i)>>) :
            op \in {"get_species_code", "get_species_name", "get_def_curve",
                    "get_def_gi_curve", "get_first_curve", "get_curve_name",
                    "get_curve_source", "get_curve_notes"},
            i \in IdxArgs}
    \cup {Call("get_def_curve_est", <<PyInt(i), PyInt(r)>>) :
            i \in IdxArgs, r \in {PLANTED, 2}}
    \cup {Call("get_next_curve", <<PyInt(i), PyInt(c)>>) :
            i \in IdxArgs, c \in {0, CurvesPer - 1}}
    \cup {Call("calc_site", <<PyInt(i), h, a, PyInt(TOTAL), PyInt(DIRECT)>>) :
            i \in {1, BadIdx}, h \in Heights, a \in Ages}
    \cup {Call("calc_age", <<PyInt(1), PyFloat(200), PyFloat(100), y, PyInt(TOTAL)>>) :
            y \in YearsToBH}
    \cup {Call("calc_height", <<PyInt(1), si, a, PyFloat(50), PyInt(TOTAL)>>) :
            si \in SiteIndexes, a \in Ages}
    \cup {Call("calc_y2bh", <<PyInt(i), si>>) : i \in {1, BadIdx}, si \in SiteIndexes}
    \cup {Call("calc_convert_site", <<PyInt(i), PyFloat(200), PyInt(t)>>) :
            i \in IdxArgs, t \in {1, 2}}
    \cup {Call("calc_site_class_to_site_index", <<PyInt(i), PyInt(sc), PyInt(f)>>) :
            i \in {1, BadIdx}, sc \in {MEDIUM}, f \in {COAST, INTERIOR}}

Libs == [nspecies : 0 .. MaxSpecies, nullOnBad : BOOLEAN, direct : BOOLEAN]

(***************************************************************************)
(* State.                                                                  *)
(*   lib    the table the native library loaded (fixed after start)        *)
(*   fnsig  argtypes and restype of the function objects: fnsig[k][f] is   *)
(*          the object caller k created for the native function f          *)
(*   dllattr  the function object sindex_dll holds under each name (the    *)
(*          caller that created it), none before the first access          *)
(*   th     the concurrent callers: where each is in its wrapper call      *)
(*   mpc, menv, mcalls   main.py: its position, variables and calls made   *)
(*   trav   a caller walking the species table twice                       *)
(*   msglog the error codes a caller looked up, each with its message      *)
(***************************************************************************)
Threads == {"t1", "t2"}
\* who creates function objects: the concurrent callers, and main.py
Creators == Threads \cup {"main"}
NoObj == "none"

Unset == [py |-> "unset"]
NoRes == Returned(Unset, 0, PyFloat(0), NoPtr, <<>>, "none", "")

MainVars ==
    {"version", "first_species", "species_code", "species_name", "site_index",
     "y2bh", "converted_site_index", "height", "site_index_from_class"}

Init ==
    /\ lib \in Libs
    /\ fnsig = [k \in Creators |-> [f \in NativeFns |-> DefaultSig]]
    /\ dllattr = [f \in NativeFns |-> NoObj]
    /\ th = [t \in Threads |-> [pc |-> "idle", call |-> NoCall, obj |-> NoObj,
                                sig |-> DefaultSig, pend |-> NoRes,
                                res |-> NoRes]]
    /\ mpc = "version"
    /\ menv = [v \in MainVars |-> Unset]
    /\ mcalls = <<>>
    /\ trav = [pass |-> 1, cur |-> Unset, seq |-> <<>>, prev |-> <<>>,
               status |-> 0, steps |-> 0]
    /\ msglog = <<>>

(***************************************************************************)
(* A wrapper call run by one of several concurrent callers, statement by   *)
(* statement: fetch the function object, assign argtypes, assign restype,  *)
(* enter the native call, come back from it, log and return.  Fetching is the attribute access                      *)
(* sindex_dll.Sindex_Xxx: it yields the object sindex_dll holds under the  *)
(* name; when it holds none yet, CDLL.__getattr__ creates a new function   *)
(* object and then stores it under the name, and another caller can run    *)
(* between the two.                                                        *)
(***************************************************************************)
\* sindex_xxx = sindex_dll.Sindex_Xxx: the lookup, and the creation of a new
\* function object when the name is not set yet
Bind(t) ==
    /\ th[t].pc = "idle"
    /\ \E c \in Calls :
         IF dllattr[NativeFn(c.op)] # NoObj
         THEN th' = [th EXCEPT ![t] = [@ EXCEPT !.pc = "bound", !.call = c,
                                                !.obj = dllattr[NativeFn(c.op)]]]
         ELSE th' = [th EXCEPT ![t] = [@ EXCEPT !.pc = "getattr", !.call = c,
                                                !.obj = t]]
    /\ UNCHANGED <<lib, fnsig, dllattr, mpc, menv, mcalls, trav, msglog>>

\* the end of CDLL.__getattr__: setattr(self, name, func); return func
StoreAttr(t) ==
    /\ th[t].pc = "getattr"
    /\ dllattr' = [dllattr EXCEPT ![NativeFn(th[t].call.op)] = th[t].obj]
    /\ th' = [th EXCEPT ![t].pc = "bound"]
    /\ UNCHANGED <<lib, fnsig, mpc, menv, mcalls, trav, msglog>>

\* sindex_xxx.argtypes = [...]
SetArgtypes(t) ==
    /\ th[t].pc = "bound"
    /\ Argtypes(th[t].call.op) # NoArgtypes
    /\ fnsig' = [fnsig EXCEPT ![th[t].obj][NativeFn(th[t].call.op)].argtypes =
                                    Argtypes(th[t].call.op)]
    /\ th' = [th EXCEPT ![t].pc = "argtypes"]
    /\ UNCHANGED <<lib, dllattr, mpc, menv, mcalls, trav, msglog>>

\* sindex_xxx.restype = ...
SetRestype(t) ==
    /\ \/ th[t].pc = "argtypes"
       \/ th[t].pc = "bound" /\ Argtypes(th[t].call.op) = NoArgtypes
    /\ fnsig' = [fnsig EXCEPT ![th[t].obj][NativeFn(th[t].call.op)].restype =
                                    Restype(th[t].call.op)]
    /\ th' = [th EXCEPT ![t].pc = "restype"]
    /\ UNCHANGED <<lib, dllattr, mpc, menv, mcalls, trav, msglog>>

\* an exception raised by ctypes or by the wrapper's own statements
Raised(e, ptr, nargs) ==
    Returned(PyRaise(e), 0, PyFloat(0), ptr, nargs, "none", "")

\* the process killed by an invalid memory access
Crashed(nargs) ==
    Returned([py |-> "crash", signal |-> "SIGSEGV"], 0, PyFloat(0), NoPtr, nargs,
             "none", "")

\* ctypes' conversion of the arguments under the argtypes in force: without
\* argtypes every ctypes instance is passed as it is; with argtypes the call
\* needs at least as many arguments, each of the first ones has to be an
\* instance of its declared type (a c_double is also accepted for
\* POINTER(c_double), and passed by reference); further arguments make the
\* call a variadic one, which is refused when one of them is narrower than an
\* int (c_short, c_char), and otherwise pass as they are
ArgsOutcome(argtypes, nargs) ==
    IF argtypes = NoArgtypes THEN "ok"
    ELSE IF Len(nargs) < Len(argtypes) THEN "TypeError"
    ELSE IF \E i \in 1 .. Len(argtypes) :
                /\ nargs[i].ctype # argtypes[i]
                /\ ~(argtypes[i] = "POINTER(c_double)" /\ nargs[i].ctype = "c_double")
         THEN "ArgumentError"
    ELSE IF \E i \in Len(argtypes) + 1 .. Len(nargs) :
                nargs[i].ctype \in {"c_short", "c_char"}
         THEN "RuntimeError"
    ELSE IF \E i \in 1 .. Len(argtypes) : nargs[i].ctype # argtypes[i]
         THEN "misread"
    ELSE "ok"

\* the statements after the call in a wrapper whose native function returns
\* a short, on the integer the call returned
ShortTail(op, v, nargs) ==
    CASE op = "get_version_number" ->
            Returned([py |-> "float", hundredths |-> v], v, PyFloat(0), NoPtr,
                     nargs, "sindex_log", "result")
      [] op = "get_next_species" ->
            NextResult(v, nargs, "Last defined species index")
      [] op = "get_next_curve" ->
            NextResult(v, nargs, "Last defined curve index for this species")
      [] OTHER -> IndexResult(v, nargs)

\* what the upper half of the return register may hold when a short is read
\* as a c_int: the sign extension, zeros, or anything else
HighBits == -1 .. 1

\* a double whose bits are not the ones the native function was meant to get
\* or write
GarbageDouble == [py |-> "float", garbage |-> TRUE]

\* the answers of a native function that received a pointer in place of a
\* double: any status, with nothing or anything in the output parameter
MisreadAnswers ==
    {NativeFail(st) : st \in DOMAIN error_messages} \cup {NativeOk(GarbageDouble)}

\* the statements after the call in a wrapper whose native function returns
\* an int status, under the restype in force: an int read as c_short keeps its
\* low 16 bits; read as c_char_p it is followed as a pointer (None for 0), and
\* neither None nor bytes compares with 0
ValueUnder(restype, nat, nargs) ==
    IF restype = "c_char_p"
    THEN {Raised("TypeError", NoPtr, nargs)}
         \cup (IF nat.status = 0 THEN {} ELSE {Crashed(nargs)})
    ELSE IF restype = "c_short"
    THEN {ValueResult([status |-> CShortValue(nat.status), out |-> nat.out], nargs)}
    ELSE {ValueResult(nat, nargs)}

\* what stops a call before the native function is entered: an argument that
\* cannot be built (c_char of a number outside 0..255), or ctypes refusing the
\* arguments under the argtypes in force; "ok" when the function is entered
PreCall(sig, l, c) ==
    LET own == Apply(l, c)
        conv == ArgsOutcome(sig.argtypes, own.nargs)
    IN
    IF c.op = "calc_site_class_to_site_index" /\ own.ret = PyRaise("TypeError")
    THEN "TypeError"
    ELSE IF conv \in {"TypeError", "ArgumentError", "RuntimeError"} THEN conv
    ELSE "ok"

\* what a call yields under the signature in force on its function object.
\* Under its own signature: the wrapper's result.  Under another one ctypes
\* refuses the arguments, or passes them and converts the native result by
\* the restype in force: a short read as c_int has an undefined upper half,
\* an integer read as c_char_p is followed as a pointer, a pointer read as an
\* integer has no decode().
InvokeUnder(sig, l, c) ==
    LET own == Apply(l, c)
        conv == ArgsOutcome(sig.argtypes, own.nargs)
        r0 == Restype(c.op)
    IN
    IF sig = Signature(c.op) THEN {own}
    ELSE IF PreCall(sig, l, c) # "ok"
    THEN {Raised(PreCall(sig, l, c), NoPtr, <<>>)}
    ELSE IF conv = "misread"
    THEN {Crashed(own.nargs)}
         \cup (IF r0 = "c_int"
               THEN UNION {ValueUnder(sig.restype, nat, own.nargs) :
                             nat \in MisreadAnswers}
               ELSE {})
    ELSE IF sig.restype = r0 THEN {own}
    ELSE IF r0 = "c_char_p" THEN {Raised("AttributeError", own.ptr, own.nargs)}
    ELSE IF r0 = "c_int"
    THEN ValueUnder(sig.restype, [status |-> own.status, out |-> own.out],
                    own.nargs)
    ELSE IF sig.restype = "c_char_p"
    THEN {Raised("TypeError", NoPtr, own.nargs), Crashed(own.nargs)}
    ELSE {ShortTail(c.op, (own.status % 65536) + 65536 * h, own.nargs) :
            h \in HighBits}

\* result = sindex_xxx(...), up to the entry of the native function: ctypes
\* reads argtypes and restype of the function object and converts the
\* arguments; the interpreter lock is released for the native call, so other
\* callers run while this one is inside it
CallNative(t) ==
    /\ th[t].pc = "restype"
    /\ LET sig == fnsig[th[t].obj][NativeFn(th[t].call.op)] IN
       IF PreCall(sig, lib, th[t].call) # "ok"
       THEN \E res \in InvokeUnder(sig, lib, th[t].call) :
               th' = [th EXCEPT ![t] = [@ EXCEPT !.pc = "done", !.sig = sig,
                                                 !.res = res]]
       ELSE th' = [th EXCEPT ![t] = [@ EXCEPT !.pc = "incall", !.sig = sig]]
    /\ UNCHANGED <<lib, fnsig, dllattr, mpc, menv, mcalls, trav, msglog>>

\* the native function returns and ctypes converts its result by the restype
\* read at the entry; pend is what the rest of the wrapper makes of it
ReturnNative(t) ==
    /\ th[t].pc = "incall"
    /\ \E res \in InvokeUnder(th[t].sig, lib, th[t].call) :
          IF res.ret.py = "crash"
          THEN th' = [th EXCEPT ![t] = [@ EXCEPT !.pc = "done", !.res = res]]
          ELSE th' = [th EXCEPT ![t] = [@ EXCEPT !.pc = "returned", !.pend = res]]
    /\ UNCHANGED <<lib, fnsig, dllattr, mpc, menv, mcalls, trav, msglog>>

\* the statements after the call: the test of the result, the log record
\* (the logging lock lets other callers run before it) and the return
LogReturn(t) ==
    /\ th[t].pc = "returned"
    /\ th' = [th EXCEPT ![t] = [@ EXCEPT !.pc = "done", !.res = th[t].pend,
                                         !.pend = NoRes]]
    /\ UNCHANGED <<lib, fnsig, dllattr, mpc, menv, mcalls, trav, msglog>>

Next ==
    \E t \in Threads :
        \/ Bind(t) \/ StoreAttr(t) \/ SetArgtypes(t) \/ SetRestype(t)
        \/ CallNative(t) \/ ReturnNative(t) \/ LogReturn(t)

Spec == Init /\ [][Next]_vars

(***************************************************************************)
(* A wrapper call made by a single-threaded caller: the wrapper fetches    *)
(* its function object (created and stored at the first access), assigns   *)
(* its signature to it and calls under it.                                 *)
(***************************************************************************)
AttrAfter(attr, op) ==
    IF attr[NativeFn(op)] = NoObj THEN [attr EXCEPT ![NativeFn(op)] = "main"]
    ELSE attr

SigAfter(sigs, attr, op) ==
    [sigs EXCEPT ![AttrAfter(attr, op)[NativeFn(op)]][NativeFn(op)] = Signature(op)]

(***************************************************************************)
(* main.py, one action per statement that calls the library.  mcalls       *)
(* records each call with its arguments and result; an exception that      *)
(* escapes a wrapper ends the program.                                     *)
(***************************************************************************)
MainDo(c, var, next) ==
    LET res == Apply(lib, c) IN
    /\ fnsig' = SigAfter(fnsig, dllattr, c.op)
    /\ dllattr' = AttrAfter(dllattr, c.op)
    /\ mcalls' = Append(mcalls, [call |-> c, res |-> res])
    /\ menv' = [menv EXCEPT ![var] = res.ret]
    /\ mpc' = IF res.ret.py = "raise" THEN "crashed" ELSE next
    /\ UNCHANGED <<lib, th, trav, msglog>>

\* version = get_version_number()
MainVersion ==
    /\ mpc = "version"
    /\ MainDo(Call("get_version_number", <<>>), "version", "first_species")

\* first_species = get_first_species(); if first_species != -1: ...
MainFirstSpecies ==
    /\ mpc = "first_species"
    /\ LET c == Call("get_first_species", <<>>)
           res == Apply(lib, c) IN
       MainDo(c, "first_species",
              IF res.ret # PyInt(-1) THEN "species_code" ELSE "done")

\* species_code = get_species_code(first_species)
MainSpeciesCode ==
    /\ mpc = "species_code"
    /\ MainDo(Call("get_species_code", <<menv.first_species>>), "species_code",
              "species_name")

\* species_name = get_species_name(first_species)
MainSpeciesName ==
    /\ mpc = "species_name"
    /\ MainDo(Call("get_species_name", <<menv.first_species>>), "species_name",
              "calc_site")

\* site_index = calc_site(1, 10.0, 50.0, EAgeType.TOTAL, EEstimate.DIRECT)
MainCalcSite ==
    /\ mpc = "calc_site"
    /\ MainDo(Call("calc_site", <<PyInt(1), PyFloat(100), PyFloat(500),
                                  PyInt(TOTAL), PyInt(DIRECT)>>),
              "site_index", "calc_y2bh")

\* y2bh = calc_y2bh(1, site_index)
MainCalcY2bh ==
    /\ mpc = "calc_y2bh"
    /\ MainDo(Call("calc_y2bh", <<PyInt(1), menv.site_index>>), "y2bh",
              "calc_convert_site")

\* converted_site_index = calc_convert_site(first_species, site_index, 2)
MainCalcConvertSite ==
    /\ mpc = "calc_convert_site"
    /\ MainDo(Call("calc_convert_site",
                   <<menv.first_species, menv.site_index, PyInt(2)>>),
              "converted_site_index", "calc_height")

\* main.py handing the computed y2bh to calc_height
MainCalcHeight_ComputedY2bh ==
    /\ mpc = "calc_height"
    /\ MainDo(Call("calc_height", <<PyInt(1), menv.site_index, PyFloat(500),
                                    menv.y2bh, PyInt(TOTAL)>>),
              "height", "calc_site_class")

\* height = calc_height(1, site_index, 50.0, 5.0, EAgeType.TOTAL)
MainCalcHeight ==
    /\ mpc = "calc_height"
    /\ MainDo(Call("calc_height", <<PyInt(1), menv.site_index, PyFloat(500),
                                    PyFloat(50), PyInt(TOTAL)>>),
              "height", "calc_site_class")

\* site_index_from_class = calc_site_class_to_site_index(
\*     first_species, EnumSiteClass.MEDIUM, EnumCstIntFIZ.COAST)
MainCalcSiteClass ==
    /\ mpc = "calc_site_class"
    /\ MainDo(Call("calc_site_class_to_site_index",
                   <<menv.first_species, PyInt(MEDIUM), PyInt(COAST)>>),
              "site_index_from_class", "done")

MainStep ==
    \/ MainVersion \/ MainFirstSpecies \/ MainSpeciesCode \/ MainSpeciesName
    \/ MainCalcSite \/ MainCalcY2bh \/ MainCalcConvertSite \/ MainCalcHeight
    \/ MainCalcSiteClass

(***************************************************************************)
(* A caller that walks the species table with get_first_species and        *)
(* get_next_species until -1 comes back, twice over.  seq holds the        *)
(* indices returned in the current pass, prev those of the first pass,     *)
(* status the native status of the last call.                              *)
(***************************************************************************)
\* the walk is cut off once it is longer than any table the model loads
MaxWalk == MaxSpecies + 2

TravRecord(res) ==
    [trav EXCEPT !.cur = res.ret, !.status = res.status,
                 !.seq = IF res.ret.py = "int" /\ res.ret # PyInt(-1)
                         THEN Append(@, res.ret.n) ELSE @,
                 !.steps = @ + 1]

TravFirst ==
    /\ trav.cur = Unset
    /\ trav' = TravRecord(Apply(lib, Call("get_first_species", <<>>)))
    /\ fnsig' = SigAfter(fnsig, dllattr, "get_first_species")
    /\ dllattr' = AttrAfter(dllattr, "get_first_species")
    /\ UNCHANGED <<lib, th, mpc, menv, mcalls, msglog>>

TravNext ==
    /\ trav.cur \notin {Unset, PyInt(-1)}
    /\ trav.steps < MaxWalk
    /\ trav' = TravRecord(Apply(lib, Call("get_next_species", <<trav.cur>>)))
    /\ fnsig' = SigAfter(fnsig, dllattr, "get_next_species")
    /\ dllattr' = AttrAfter(dllattr, "get_next_species")
    /\ UNCHANGED <<lib, th, mpc, menv, mcalls, msglog>>

TravAgain ==
    /\ trav.cur = PyInt(-1)
    /\ trav.pass = 1
    /\ trav' = [trav EXCEPT !.pass = 2, !.prev = trav.seq, !.seq = <<>>,
                            !.cur = Unset, !.steps = 0]
    /\ UNCHANGED <<lib, fnsig, dllattr, th, mpc, menv, mcalls, msglog>>

NextMain == MainStep \/ TravFirst \/ TravNext \/ TravAgain

SpecMain == Init /\ [][NextMain]_vars

(***************************************************************************)
(* A caller of get_sindex_err_msg alone: it looks up error codes, known    *)
(* and unknown, and keeps each code with the message it got.               *)
(***************************************************************************)
\* the integers looked up: the twelve codes of the table, the two below
\* them, zero and one
ErrorCodes == -MaxCode .. 1

\* msg = get_sindex_err_msg(error_code)
LookupMsg ==
    /\ Len(msglog) < MaxLookups
    /\ \E error_code \in ErrorCodes :
         msglog' = Append(msglog, [code |-> error_code,
                                   msg |-> get_sindex_err_msg(error_code)])
    /\ UNCHANGED <<lib, fnsig, dllattr, th, mpc, menv, mcalls, trav>>

NextErrMsg == LookupMsg

SpecErrMsg == Init /\ [][NextErrMsg]_vars

(***************************************************************************)
(* Properties.                                                             *)
(***************************************************************************)
Done(t) == th[t].pc = "done"
OpOf(t) == th[t].call.op
ArgsOf(t) == th[t].call.args
ResOf(t) == th[t].res

NextOps == {"get_next_species", "get_next_curve"}
IndexOps ==
    {"get_first_species", "get_next_species", "get_def_curve", "get_def_curve_est",
     "get_def_gi_curve", "get_first_curve", "get_next_curve"}
ValueOps ==
    {"calc_site", "calc_age", "calc_height", "calc_y2bh", "calc_convert_site",
     "calc_site_class_to_site_index"}
SpeciesStringOps == {"get_species_code", "get_species_name"}
CurveStringOps == {"get_curve_name", "get_curve_source", "get_curve_notes"}
SpeciesIndexOps == {"get_def_curve", "get_def_curve_est", "get_def_gi_curve"}

\* an end-of-sequence call and an error call of the same traversal wrapper
EndAndError(t, u) ==
    /\ Done(t) /\ Done(u)
    /\ OpOf(t) \in NextOps /\ OpOf(u) = OpOf(t)
    /\ ResOf(t).status = -4
    /\ ResOf(u).status < 0 /\ ResOf(u).status # -4

\* C1 as stated: for get_next_species and get_next_curve the end-of-sequence
\* outcome (native status -4) and an error outcome (another negative status)
\* never give the caller the same returned value.
C1_EndDistinctFromError ==
    \A t, u \in Threads : EndAndError(t, u) => ResOf(t).ret # ResOf(u).ret

\* C1 amended: end-of-sequence and error both return -1 to the caller and are
\* told apart by the log alone (end-of-sequence goes to the debug logger
\* sindex_log, an error to sindex_error with the message of its status); a
\* non-negative native result is returned as it is, so it differs from both.
C1_EndAndErrorBothMinusOne ==
    /\ \A t, u \in Threads :
         EndAndError(t, u) =>
            /\ ResOf(t).ret = PyInt(-1) /\ ResOf(u).ret = PyInt(-1)
            /\ ResOf(t).logger = "sindex_log"
            /\ ResOf(u).logger = "sindex_error"
            /\ ResOf(u).msg = get_sindex_err_msg(ResOf(u).status)
    /\ \A t \in Threads :
         Done(t) /\ OpOf(t) \in NextOps /\ ResOf(t).status >= 0 =>
            ResOf(t).ret = PyInt(ResOf(t).status)

C1_Witness == \E t, u \in Threads : EndAndError(t, u)

\* two failed calls of the same value wrapper with different native statuses
TwoFailures(t, u) ==
    /\ Done(t) /\ Done(u)
    /\ OpOf(t) \in ValueOps /\ OpOf(u) = OpOf(t)
    /\ ResOf(t).status < 0 /\ ResOf(u).status < 0
    /\ ResOf(t).status # ResOf(u).status

\* C2 as stated: a failure reaches the caller unchanged in kind, so two
\* different negative native statuses of a calc_ wrapper yield different
\* results to the caller.
C2_FailureKindsDistinct ==
    \A t, u \in Threads : TwoFailures(t, u) => ResOf(t).ret # ResOf(u).ret

\* C2 amended: every calc_ wrapper returns negative infinity for every negative
\* native status, so two different statuses yield the same result; the kind
\* reaches the error log only, as the message of the status, and different
\* statuses log different messages.
C2_FailuresAllNegInf ==
    /\ \A t \in Threads :
         Done(t) /\ OpOf(t) \in ValueOps /\ ResOf(t).status < 0 =>
            /\ ResOf(t).ret = NegInf
            /\ ResOf(t).logger = "sindex_error"
            /\ ResOf(t).msg = get_sindex_err_msg(ResOf(t).status)
    /\ \A t, u \in Threads :
         TwoFailures(t, u) =>
            /\ ResOf(t).ret = ResOf(u).ret
            /\ ResOf(t).msg # ResOf(u).msg

C2_Witness == \E t, u \in Threads : TwoFailures(t, u)

RECURSIVE StrictlyIncreasing(_)
StrictlyIncreasing(q) ==
    \/ Len(q) < 2
    \/ q[1] < q[2] /\ StrictlyIncreasing(Tail(q))

IsPrefix(p, q) == Len(p) <= Len(q) /\ p = SubSeq(q, 1, Len(p))

\* C3: walking the species table from get_first_species with get_next_species
\* returns a strictly advancing sequence of indices, no longer than the table,
\* that ends with the end-of-sequence result (-1 on native status -4); a second
\* walk returns the same sequence.
C3_TraversalAdvancesAndRepeats ==
    /\ StrictlyIncreasing(trav.seq)
    /\ Len(trav.seq) <= lib.nspecies
    /\ trav.steps <= lib.nspecies + 1
    /\ trav.steps = lib.nspecies + 1 => trav.cur = PyInt(-1)
    /\ trav.cur = PyInt(-1) => Len(trav.seq) = lib.nspecies
    /\ trav.cur = PyInt(-1) /\ trav.steps >= 2 => trav.status = -4
    /\ trav.pass = 2 => IsPrefix(trav.seq, trav.prev)
    /\ trav.pass = 2 /\ trav.cur = PyInt(-1) => trav.seq = trav.prev

C3_Witness ==
    /\ trav.pass = 2
    /\ trav.cur = PyInt(-1)
    /\ Len(trav.seq) >= 2
    /\ trav.seq = trav.prev

\* a metadata lookup called with an index outside the loaded table
InvalidLookup(t) ==
    /\ Done(t)
    /\ \/ /\ OpOf(t) \in SpeciesStringOps \cup SpeciesIndexOps
          /\ ~ValidSpecies(lib, ArgsOf(t)[1].n)
       \/ /\ OpOf(t) \in CurveStringOps
          /\ ~ValidCurve(lib, ArgsOf(t)[1].n)

\* C4 as stated: every metadata lookup on an index outside the loaded table
\* ends in a typed error (unknown species, unknown curve): it returns no
\* ordinary string or index and raises no exception.
C4_InvalidLookupIsTypedError ==
    \A t \in Threads :
        InvalidLookup(t) =>
            /\ ResOf(t).ret.py \notin {"str", "raise"}
            /\ ResOf(t).ret = PyInt(-1)
            /\ ResOf(t).logger = "sindex_error"
            /\ ResOf(t).msg = IF OpOf(t) \in CurveStringOps
                              THEN get_sindex_err_msg(-5)
                              ELSE get_sindex_err_msg(-8)

\* a site-class conversion of a known species, class and zone that the
\* site-class table has no entry for
NoEntry(t) ==
    /\ Done(t)
    /\ OpOf(t) = "calc_site_class_to_site_index"
    /\ ValidSpecies(lib, ArgsOf(t)[1].n)
    /\ ArgsOf(t)[2].n \in 0 .. GOOD
    /\ ArgsOf(t)[3].n \in {COAST, INTERIOR}
    /\ ~HasSiteClassEntry(ArgsOf(t)[1].n, ArgsOf(t)[2].n, ArgsOf(t)[3].n)

SiteClassSuccess(u) ==
    /\ Done(u)
    /\ OpOf(u) = "calc_site_class_to_site_index"
    /\ ResOf(u).status >= 0

\* C5: calc_site_class_to_site_index on a (species, class, zone) triple without
\* a table entry reports "no answer" (native status -4, logged with its
\* message) and hands the caller negative infinity, which is not finite and is
\* not a value any successful conversion returns.
C5_NoEntryIsNotNumeric ==
    \A t \in Threads :
        NoEntry(t) =>
            /\ ResOf(t).status = -4
            /\ ResOf(t).ret = NegInf
            /\ ~IsFinite(ResOf(t).ret)
            /\ ResOf(t).logger = "sindex_error"
            /\ ResOf(t).msg = "no answer was generated"
            /\ \A u \in Threads :
                 SiteClassSuccess(u) =>
                    IsFinite(ResOf(u).ret) /\ ResOf(u).ret # ResOf(t).ret

C5_Witness == \E t, u \in Threads : NoEntry(t) /\ SiteClassSuccess(u)

\* two calc_age calls that agree on curve index, site index, height and age type
SameFourInputs(t, u) ==
    /\ Done(t) /\ Done(u)
    /\ OpOf(t) = "calc_age" /\ OpOf(u) = "calc_age"
    /\ ArgsOf(t)[1] = ArgsOf(u)[1]
    /\ ArgsOf(t)[2] = ArgsOf(u)[2]
    /\ ArgsOf(t)[3] = ArgsOf(u)[3]
    /\ ArgsOf(t)[5] = ArgsOf(u)[5]

\* C6 as stated: the result of calc_age is a function of (curve index, height,
\* site index, age type) alone; no years-to-breast-height value supplied by the
\* caller can change what is computed.
C6_AgeFromFourInputs ==
    \A t, u \in Threads :
        SameFourInputs(t, u) =>
            /\ ResOf(t).ret = ResOf(u).ret
            /\ ResOf(t).nargs = ResOf(u).nargs

\* C6 amended: calc_age takes five inputs (curve index, site index, height,
\* years to breast height, age type); the caller's years-to-breast-height is
\* handed unchanged to the native call as its fifth argument, nothing is
\* computed for it internally, and a successful result is the native
\* function of all five.
C6_AgeUsesCallersY2bh ==
    \A t \in Threads :
        Done(t) /\ OpOf(t) = "calc_age" =>
            /\ ResOf(t).nargs[5] = CDouble(ArgsOf(t)[4])
            /\ ResOf(t).status >= 0 =>
                 ResOf(t).ret =
                    NativeDouble("Sindex_HtSIToAge",
                                 <<PyInt(CShortValue(ArgsOf(t)[1].n)), ArgsOf(t)[3],
                                   PyInt(CShortValue(ArgsOf(t)[5].n)), ArgsOf(t)[2],
                                   ArgsOf(t)[4]>>)

C6_Witness ==
    \E t, u \in Threads :
        /\ SameFourInputs(t, u)
        /\ ArgsOf(t)[4] # ArgsOf(u)[4]
        /\ ResOf(t).status >= 0 /\ ResOf(u).status >= 0
        /\ ResOf(t).ret # ResOf(u).ret

\* main.py has made its calc_height call: mcalls[5] is the calc_site call,
\* mcalls[6] the calc_y2bh call, mcalls[8] the calc_height call
HeightCalled == Len(mcalls) >= 8

\* C7 as stated: in main.py's scenario the site index calc_site produced is the
\* one passed to calc_y2bh, calc_y2bh runs on the default curve of species 1,
\* and calc_height at age 50.0 receives both the produced site index and the
\* produced years-to-breast-height.
C7_ScenarioFeedsBothBack ==
    HeightCalled =>
        /\ mcalls[5].call = Call("calc_site", <<PyInt(1), PyFloat(100), PyFloat(500),
                                                PyInt(TOTAL), PyInt(DIRECT)>>)
        /\ mcalls[6].call.op = "calc_y2bh"
        /\ mcalls[6].call.args[1] = get_def_curve(lib, 1).ret
        /\ mcalls[6].call.args[2] = mcalls[5].res.ret
        /\ mcalls[8].call.op = "calc_height"
        /\ mcalls[8].call.args[2] = mcalls[5].res.ret
        /\ mcalls[8].call.args[3] = PyFloat(500)
        /\ mcalls[8].call.args[4] = mcalls[6].res.ret

\* C7 amended: in main.py's scenario (index 1, height 10.0, age 50.0, TOTAL,
\* DIRECT) the value calc_site returned is the site index passed to calc_y2bh
\* and to calc_height at age 50.0; calc_y2bh is called with the literal curve
\* index 1 (no default curve is looked up), and calc_height is called with the
\* literal 5.0 as years-to-breast-height, not with the value calc_y2bh
\* returned.
C7_ScenarioFeedsSiteIndexOnly ==
    HeightCalled =>
        /\ mcalls[5].call = Call("calc_site", <<PyInt(1), PyFloat(100), PyFloat(500),
                                                PyInt(TOTAL), PyInt(DIRECT)>>)
        /\ mcalls[6].call = Call("calc_y2bh", <<PyInt(1), mcalls[5].res.ret>>)
        /\ mcalls[8].call =
              Call("calc_height", <<PyInt(1), mcalls[5].res.ret, PyFloat(500),
                                    PyFloat(50), PyInt(TOTAL)>>)
        /\ menv.site_index = mcalls[5].res.ret
        /\ menv.y2bh = mcalls[6].res.ret

C7_Witness ==
    /\ HeightCalled
    /\ mcalls[5].res.status >= 0 /\ IsFinite(mcalls[5].res.ret)
    /\ mcalls[6].res.status >= 0 /\ IsFinite(mcalls[6].res.ret)
    /\ mcalls[6].res.ret # PyFloat(50)
    /\ mcalls[8].res.status >= 0

\* C8: under every interleaving of concurrent wrapper calls, each call finds
\* its own signature in force on its function object when it calls the native
\* function, although other calls rewrite argtypes and restype of the shared
\* function objects meanwhile, and it returns what it returns when run alone.
C8_CallsUnderOwnSignature ==
    \A t \in Threads :
        /\ th[t].pc = "restype" =>
              fnsig[th[t].obj][NativeFn(OpOf(t))] = Signature(OpOf(t))
        /\ th[t].pc \in {"incall", "returned"} => th[t].sig = Signature(OpOf(t))
        /\ th[t].pc = "returned" => th[t].pend = Apply(lib, th[t].call)
        /\ Done(t) => /\ th[t].sig = Signature(OpOf(t))
                      /\ ResOf(t) = Apply(lib, th[t].call)

C8_Witness ==
    \E t, u \in Threads :
        /\ t # u
        /\ Done(t)
        /\ ResOf(t).status >= 0 /\ ResOf(t).ret.py = "float"
        /\ th[u].pc = "argtypes"
        /\ NativeFn(OpOf(t)) = NativeFn(OpOf(u))
        /\ th[t].obj # th[u].obj
        /\ dllattr[NativeFn(OpOf(t))] = th[t].obj

\* C9: an index wrapper returns -1 exactly when the native result is negative
\* and the native result itself otherwise (0 is returned as index 0); a value
\* wrapper returns negative infinity exactly when the native status is
\* negative and the value in the output parameter otherwise.
C9_SentinelIffNegative ==
    \A t \in Threads :
        Done(t) =>
            /\ OpOf(t) \in IndexOps =>
                 /\ ResOf(t).ret = PyInt(-1) <=> ResOf(t).status < 0
                 /\ ResOf(t).status >= 0 => ResOf(t).ret = PyInt(ResOf(t).status)
            /\ OpOf(t) \in ValueOps /\ ResOf(t).ret.py # "raise" =>
                 /\ ResOf(t).ret = NegInf <=> ResOf(t).status < 0
                 /\ ResOf(t).status >= 0 => ResOf(t).ret = ResOf(t).out

C9_Witness ==
    \E t, u \in Threads :
        /\ Done(t) /\ OpOf(t) \in IndexOps
        /\ ResOf(t).status = 0 /\ ResOf(t).ret = PyInt(0)
        /\ Done(u) /\ OpOf(u) \in ValueOps
        /\ ResOf(u).status < 0 /\ ResOf(u).ret = NegInf

\* what each Python parameter of the three wrappers means, in Python order
WrapperParams(op) ==
    CASE op = "calc_site" -> <<"index", "height", "age", "age_type", "estimate">>
      [] op = "calc_age" -> <<"index", "site_index", "height", "y2bh", "age_type">>
      [] op = "calc_height" -> <<"index", "site_index", "age", "y2bh", "age_type">>

\* what each native parameter means, in native order
NativeParams(op) ==
    CASE op = "calc_site" -> <<"index", "age", "age_type", "height", "estimate">>
      [] op = "calc_age" -> <<"index", "height", "age_type", "site_index", "y2bh">>
      [] op = "calc_height" -> <<"index", "age", "age_type", "site_index", "y2bh">>

\* the value a Python argument has once converted for its slot
Converted(x) == IF x.py = "int" THEN CShortValue(x.n) ELSE x

\* C10: calc_site, calc_age and calc_height hand each caller argument to the
\* native parameter of the same meaning (height to height, age to age, site
\* index to site index, years-to-breast-height and age type to theirs), and
\* every argument has the ctypes type argtypes declares for its slot.
C10_ArgumentsReachTheirSlots ==
    \A t \in Threads :
        Done(t) /\ OpOf(t) \in {"calc_site", "calc_age", "calc_height"} =>
            /\ Len(ResOf(t).nargs) = Len(Argtypes(OpOf(t)))
            /\ \A i \in 1 .. Len(ResOf(t).nargs) :
                 ResOf(t).nargs[i].ctype = Argtypes(OpOf(t))[i]
            /\ \A i, j \in 1 .. 5 :
                 NativeParams(OpOf(t))[i] = WrapperParams(OpOf(t))[j] =>
                    ResOf(t).nargs[i].v = Converted(ArgsOf(t)[j])

C10_Witness ==
    \E t, u \in Threads :
        /\ Done(t) /\ OpOf(t) = "calc_site" /\ ResOf(t).status >= 0
        /\ ArgsOf(t)[2] # ArgsOf(t)[3]
        /\ Done(u) /\ OpOf(u) = "calc_height" /\ ResOf(u).status >= 0
        /\ ArgsOf(u)[2] # ArgsOf(u)[3]

\* the steps of main.py that take the site index as their second argument
SiteIndexConsumers == {"calc_y2bh", "calc_convert_site", "calc_height"}

\* main.py's calc_site call (its fifth call) failed and returned its sentinel
CalcSiteFailed ==
    /\ Len(mcalls) >= 5
    /\ mcalls[5].call.op = "calc_site"
    /\ mcalls[5].res.status < 0
    /\ mcalls[5].res.ret = NegInf

\* C11 as stated: in main.py the steps that consume the site index (calc_y2bh,
\* calc_convert_site, calc_height) are only called with a site index calc_site
\* produced successfully: when calc_site fails and returns its error sentinel,
\* no later call receives that sentinel as its site_index argument.
C11_SentinelNeverPassedOn ==
    CalcSiteFailed =>
        \A i \in 6 .. Len(mcalls) :
            mcalls[i].call.op \in SiteIndexConsumers =>
                /\ mcalls[i].call.args[2] # mcalls[5].res.ret
                /\ IsFinite(mcalls[i].call.args[2])

\* the codes the claim calls known
KnownCodes == -12 .. -1

\* C12: get_sindex_err_msg answers every integer with a string: each of the
\* twelve codes -1 .. -12 with its own entry of the table, which is never
\* "unknown issue" and never the message of another of the twelve codes, and
\* every other integer (zero, positive, below -12) with "unknown issue".
C12_MessagesTotalAndInjective ==
    /\ \A i \in 1 .. Len(msglog) :
         LET e == msglog[i] IN
         /\ e.msg \in STRING
         /\ e.code \in KnownCodes =>
              e.msg = error_messages[e.code] /\ e.msg # "unknown issue"
         /\ e.code \notin KnownCodes => e.msg = "unknown issue"
    /\ \A i, j \in 1 .. Len(msglog) :
         /\ msglog[i].code \in KnownCodes
         /\ msglog[j].code \in KnownCodes
         /\ msglog[i].code # msglog[j].code
         => msglog[i].msg # msglog[j].msg

C12_Witness ==
    /\ Len(msglog) = 3
    /\ msglog[1].code = -10 /\ msglog[2].code = -8
    /\ msglog[1].msg # msglog[2].msg
    /\ msglog[3].code = -13 /\ msglog[3].msg = "unknown issue"

====
